---- MODULE Spec2Model ----
(***************************************************************************)
(* Bonnie Buddy: the randomized state machine of the desktop companion.   *)
(*                                                                         *)
(* One frame of the Bevy main schedule is modelled as three steps:        *)
(*   StateTransition (the OnExit / OnEnter systems of a pending state),   *)
(*   Update (the systems of the other plugins, then the chained systems   *)
(*   of BonnieStatePlugin, each an operator on the record of what the     *)
(*   systems read and write), and PostUpdate (handle_state_transitions).  *)
(* Time is counted in milliseconds; positions are integer pixels.         *)
(* Real-valued quantities of the code (f32 lengths, speeds) are compared  *)
(* exactly through their squares.                                         *)
(***************************************************************************)
EXTENDS Integers, Sequences, FiniteSets, Bags, TLC

VARIABLES
    pc,            \* the schedule that runs next in the current frame
    delta,         \* Time::delta() of the current frame, in milliseconds
    state,         \* State<BonnieState>: the framework's current state
    next_state,    \* NextState<BonnieState>: the pending state, or Unchanged
    bonnie_state,  \* Bonnie.state: the copy kept on the Actor component
    machine,       \* StateMachine { timer, can_change }
    window_pos,    \* Window.position of the primary window
    teach_pos,     \* Window.position of the teach popup, Automatic without one
    cursor_pos,    \* GlobalCursorPosition(Option<Vec2>)
    monitor,       \* current_monitor().size(), or NoMonitor
    windows,       \* the transient windows: how many of each kind exist
    birds,         \* position and BirdDirection of every bird window, oldest first
    mouse_events,  \* the left presses of the current frame, by window
    sprite,        \* the image of Bonnie's sprite
    fault          \* the panic that ended the run, or NoFault

vars == <<pc, delta, state, next_state, bonnie_state, machine, window_pos,
          teach_pos, cursor_pos, monitor, windows, birds, mouse_events, sprite, fault>>

-----------------------------------------------------------------------------
(* Bounds of the model *)

\* the length in seconds of a frame in which time passes: long enough for a walk
\* to take a frame or two
FrameSeconds == 2

\* left presses in one frame, on one window or on several
MaxEvents == 2

\* poop, bird and scratch windows that may exist at once, all together
MaxWindows == 1

-----------------------------------------------------------------------------
(* Program constants *)

\* the unit of time is the millisecond
TicksPerSecond == 1000

WINDOW_SIZE_BUFFER == 200
BIRD_SIZE_BUFFER == 80
WalkMargin == 150
AnchorX == 90
AnchorY == 147
WakeDistance == 70
CatchDistance == 35
InitialSeconds == 2
MinSeconds == 1
MaxSeconds == 4
DefaultX == 100
BirdStartX == 100
BirdStartY == 100
TeachStartX == -1000
TeachStartY == 300
TeachOffsetX == -170
TeachOffsetY == 200
DefaultY == 100

NoFault == "none"
NoMonitor == [width |-> 0, height |-> 0, present |-> FALSE]
Unchanged == [kind |-> "Unchanged", target |-> <<0, 0>>]

\* WindowPosition::Automatic and WindowPosition::At(pos)
Automatic == [at |-> FALSE, pos |-> <<0, 0>>]
At(p) == [at |-> TRUE, pos |-> p]

\* Option<Vec2>: None and Some(pos)
NoCursor == [some |-> FALSE, pos |-> <<0, 0>>]
Some(p) == [some |-> TRUE, pos |-> p]

Size(w, h) == [width |-> w, height |-> h, present |-> TRUE]

-----------------------------------------------------------------------------
(* BonnieState *)

BonnieStateDiscriminants ==
    {"Idle", "Walking", "Pooping", "Chasing", "Teaching", "Meowing", "Bird", "Scratch"}

ZERO == <<0, 0>>

\* From<BonnieStateDiscriminants> for BonnieState: Walking gets IVec2::ZERO
FromDiscriminant(disc) == [kind |-> disc, target |-> ZERO]

Idle == FromDiscriminant("Idle")

Walking(target) == [kind |-> "Walking", target |-> target]

-----------------------------------------------------------------------------
(* Timer (bevy::time::Timer, TimerMode::Once) and StateMachine *)

NewTimer(duration) == [elapsed |-> 0, duration |-> duration, finished |-> FALSE]

\* Timer::tick: a finished Once timer stays as it is; otherwise the elapsed
\* time advances and is clamped to the duration
TimerTick(t, d) ==
    IF t.finished THEN t
    ELSE LET e == t.elapsed + d
         IN  IF e >= t.duration
             THEN [t EXCEPT !.elapsed = t.duration, !.finished = TRUE]
             ELSE [t EXCEPT !.elapsed = e]

\* Timer::set_duration alone, the reset left out
TimerSetDuration(t, duration) == [t EXCEPT !.duration = duration]

\* Timer::reset followed by Timer::set_duration
TimerReset(t, duration) == [elapsed |-> 0, duration |-> duration, finished |-> FALSE]

Remaining(t) == t.duration - t.elapsed

\* block written as a toggle
block_toggles(m) == [m EXCEPT !.can_change = ~m.can_change]

block(m) == [m EXCEPT !.can_change = FALSE]

unblock(m) == [m EXCEPT !.can_change = TRUE]

toggle_block(m) == [m EXCEPT !.can_change = ~m.can_change]

\* a finish that toggles can_change where finish sets it
finish_toggles(m) ==
    [m EXCEPT !.timer = [elapsed  |-> m.timer.duration,
                         duration |-> m.timer.duration,
                         finished |-> TRUE],
              !.can_change = ~m.can_change]

\* StateMachine::finish: remaining duration to zero and can_change = true
finish(m) ==
    [m EXCEPT !.timer = [elapsed  |-> m.timer.duration,
                         duration |-> m.timer.duration,
                         finished |-> TRUE],
              !.can_change = TRUE]

-----------------------------------------------------------------------------
(* Randomness: rng.random_range(lo..hi) *)

\* the values random_range(lo..hi) can return, empty when the range is empty:
\* all of them, or (to keep the state machine's runs small) the two extreme ones
random_range(lo, hi, all) ==
    IF lo >= hi THEN {}
    ELSE IF all THEN lo .. (hi - 1)
    ELSE {lo, hi - 1}

\* u32::saturating_sub
saturating_sub(a, b) == IF a > b THEN a - b ELSE 0

-----------------------------------------------------------------------------
(* State Selector *)

Result(s) == [fault |-> NoFault, state |-> s]

Panic(msg) == [fault |-> msg, state |-> Idle]

\* lines 191-195: the ranges WINDOW_SIZE_BUFFER..(dim - WINDOW_SIZE_BUFFER) of the
\* first Walking target and their sampling.  The u32 subtraction panics in a build
\* with overflow checks and wraps to a large bound in one without; sampling an
\* empty range panics.  The coordinates drawn here are replaced at lines 201-221,
\* so only the fault, if any, is kept.
FirstTargetFault(size, checks) ==
    LET under(dim) == dim < WINDOW_SIZE_BUFFER
        empty(dim) == ~under(dim) /\ dim - WINDOW_SIZE_BUFFER <= WINDOW_SIZE_BUFFER
    IN  IF checks /\ (under(size.width) \/ under(size.height))
        THEN "attempt to subtract with overflow"
        ELSE IF empty(size.width) \/ empty(size.height)
        THEN "cannot sample empty range"
        ELSE NoFault

\* lines 204-218: one coordinate of the Walking target
WalkCoordinate(dim, all) ==
    LET min == WalkMargin
        max == saturating_sub(dim, WalkMargin)
    IN  IF max > min THEN random_range(min, max, all) ELSE random_range(0, dim, all)

\* lines 189-221: the states built for a chosen discriminant, a panic included
StateFor(disc, size, checks, all) ==
    IF disc # "Walking" THEN {Result(FromDiscriminant(disc))}
    ELSE IF FirstTargetFault(size, checks) # NoFault
    THEN {Panic(FirstTargetFault(size, checks))}
    ELSE LET xs == WalkCoordinate(size.width, all)
             ys == WalkCoordinate(size.height, all)
         IN  IF xs = {} \/ ys = {}
             THEN {Panic("cannot sample empty range")}
             ELSE {Result(Walking(<<x, y>>)) : x \in xs, y \in ys}

\* random_state with the filter of line 187 left out
random_state_unfiltered(current, size, checks, all) ==
    UNION {StateFor(d, size, checks, all) : d \in BonnieStateDiscriminants}

\* random_state: every result the selector can produce for the current state on a
\* monitor of the given size: a discriminant other than the current one is chosen
\* (Idle if there is none) and its state built
random_state(current, size, checks, all) ==
    LET others == {d \in BonnieStateDiscriminants : d # current.kind}
        chosen == IF others = {} THEN {"Idle"} ELSE others
    IN  UNION {StateFor(d, size, checks, all) : d \in chosen}

-----------------------------------------------------------------------------
(* Steering arithmetic, exact on the reals *)

RECURSIVE GCD(_, _)
GCD(a, b) == IF b = 0 THEN a ELSE GCD(b, a % b)

\* a/b <= c/d for naturals a, c and positive b, d, without forming products
RECURSIVE LeqFrac(_, _, _, _)
LeqFrac(a, b, c, d) ==
    LET qa == a \div b
        qc == c \div d
        ra == a % b
        rc == c % d
    IN  IF qa # qc THEN qa < qc
        ELSE IF ra = 0 THEN TRUE
        ELSE IF rc = 0 THEN FALSE
        ELSE LeqFrac(d, rc, b, ra)

Abs(a) == IF a < 0 THEN -a ELSE a

Sign(a) == IF a < 0 THEN -1 ELSE IF a > 0 THEN 1 ELSE 0

Reduced(num, den) == <<num \div GCD(num, den), den \div GCD(num, den)>>

\* calculate_movement_speed, in pixels per second, as the square of the speed, a
\* reduced fraction <<num, den>>: (diagonal * 0.15 * base_speed)^2, where
\* diagonal^2 = width^2 + height^2 and 0.15 * base_speed = 3 * (2 * base_speed) / 40
calculate_movement_speed(resolution, kind) ==
    LET diagonal2 == resolution.width * resolution.width
                     + resolution.height * resolution.height
        base_speed2 == CASE kind = "Chasing"  -> 4
                         [] kind = "Teaching" -> 6
                         [] kind = "Bird"     -> 3
                         [] OTHER             -> 2
        factor == Reduced(9 * base_speed2 * base_speed2, 1600)
        common == GCD(diagonal2, factor[2])
    IN  <<(diagonal2 \div common) * factor[1], factor[2] \div common>>

\* (speed * time.delta_secs())^2: the squared length of the step of a frame of d
\* milliseconds
StepLength(speed, d) ==
    LET secs == Reduced(d, TicksPerSecond)
    IN  Reduced(speed[1] * secs[1] * secs[1], speed[2] * secs[2] * secs[2])

\* round(a * sqrt(step / len2)) for a natural a with a * a <= len2, f32::round
\* (half away from zero): the greatest k in lo..hi with
\* (2k - 1)^2 / (4 a^2) <= step / len2
RECURSIVE RoundIn(_, _, _, _, _)
RoundIn(a, step, len2, lo, hi) ==
    IF lo >= hi THEN lo
    ELSE LET mid == (lo + hi + 1) \div 2
             fits == LeqFrac((2 * mid - 1) * (2 * mid - 1) * step[2], step[1],
                             4 * a * a, len2)
         IN  IF fits THEN RoundIn(a, step, len2, mid, hi)
             ELSE RoundIn(a, step, len2, lo, mid - 1)

\* the least k in lo..hi with step <= k^2, hi if there is none
RECURSIVE CeilIn(_, _, _)
CeilIn(step, lo, hi) ==
    IF lo >= hi THEN hi
    ELSE LET mid == (lo + hi) \div 2
         IN  IF mid > 0 /\ LeqFrac(step[1], step[2] * mid, mid, 1)
             THEN CeilIn(step, lo, mid)
             ELSE CeilIn(step, mid + 1, hi)

\* a * sqrt(step / len2) cut to an integer: the greatest k in lo..hi with
\* k^2 / a^2 <= step / len2
RECURSIVE TruncatedIn(_, _, _, _, _)
TruncatedIn(a, step, len2, lo, hi) ==
    IF lo >= hi THEN lo
    ELSE LET mid == (lo + hi + 1) \div 2
         IN  IF LeqFrac(mid * mid * step[2], step[1], a * a, len2)
             THEN TruncatedIn(a, step, len2, mid, hi)
             ELSE TruncatedIn(a, step, len2, lo, mid - 1)

\* a component of delta.as_ivec2(), the round() of line 356 left out
TruncatedComponent(a, step, len2) ==
    IF a = 0 \/ step[1] = 0 THEN 0
    ELSE Sign(a) * TruncatedIn(Abs(a), step, len2, 0,
                               CeilIn(step, 0, step[1] \div step[2] + 1))

\* a component of delta.round(): no longer than the length of the step rounded up
RoundedComponent(a, step, len2) ==
    IF a = 0 \/ step[1] = 0 THEN 0
    ELSE Sign(a) * RoundIn(Abs(a), step, len2, 0,
                           CeilIn(step, 0, step[1] \div step[2] + 1))

\* Steer with the NaN of a zero remaining vector taken for the position itself
\* (cast to zero) instead of for the delta
SteerOntoNaN(current, target, step) ==
    LET dx   == target[1] - current[1]
        dy   == target[2] - current[2]
        len2 == dx * dx + dy * dy
    IN  IF len2 = 0 THEN ZERO
        ELSE IF LeqFrac(len2, 1, step[1], step[2]) THEN target
        ELSE <<current[1] + RoundedComponent(dx, step, len2),
               current[2] + RoundedComponent(dy, step, len2)>>

\* Steer without the snap of lines 353-354: every step adds the rounded delta
SteerNoSnap(current, target, step) ==
    LET dx   == target[1] - current[1]
        dy   == target[2] - current[2]
        len2 == dx * dx + dy * dy
    IN  IF len2 = 0 THEN current
        ELSE <<current[1] + RoundedComponent(dx, step, len2),
               current[2] + RoundedComponent(dy, step, len2)>>

\* lines 345-357: the new window position of one movement step, step being the
\* squared length of the frame's step
\*   direction = normalize(target - current); delta = direction * speed * dt
\*   remaining_length <= step_length  ->  target
\*   otherwise                        ->  current + round(delta)
\* A zero remaining vector normalizes to NaN: the comparison is false and the
\* rounded NaN casts to 0, so the position stays (at the target).
Steer(current, target, step) ==
    LET dx   == target[1] - current[1]
        dy   == target[2] - current[2]
        len2 == dx * dx + dy * dy
    IN  IF len2 = 0 THEN current
        ELSE IF LeqFrac(len2, 1, step[1], step[2])
        THEN target
        ELSE <<current[1] + RoundedComponent(dx, step, len2),
               current[2] + RoundedComponent(dy, step, len2)>>

-----------------------------------------------------------------------------
(* Inputs of the environment *)

\* the monitors of the runs of the state machine
Monitors == {Size(401, 401)}

\* the pointer positions the cursor tracker reports: over the anchor of the
\* window at its first position, and far from it (on a second monitor)
CursorPoints == {<<DefaultX + AnchorX, DefaultY + AnchorY>>, <<640, 397>>}

\* Time::delta() is zero in the first frame of a run
Deltas == {0, FrameSeconds * TicksPerSecond}

\* the durations random_range(1.0..4.0) gives: the extreme ones
Durations == random_range(MinSeconds * TicksPerSecond, MaxSeconds * TicksPerSecond, FALSE)

\* the kinds of transient window the entry systems spawn
WindowKinds == {"PoopWindow", "TeachWindow", "NerdWindow", "BirdWindow", "ScratchWindow"}

\* the kinds a left press can land on (the scratch overlay is created with
\* hit_test: false)
Clickable == WindowKinds \ {"ScratchWindow"}

\* the transient windows are kept as the number of windows of each kind
NoWindows == [k \in WindowKinds |-> 0]

Count(ws, kind) == ws[kind]

\* the windows a left press can land on: <<kind, i>> is the i-th window of a
\* clickable kind
Targets(ws) == UNION {{<<kind, i>> : i \in 1 .. ws[kind]} : kind \in Clickable}

\* the presses of a frame are a bag of targets
NoPresses == EmptyBag

\* at most n presses, each on one of the targets, on the same window or not
RECURSIVE PressBags(_, _)
PressBags(targets, n) ==
    IF n = 0 THEN {EmptyBag}
    ELSE LET fewer == PressBags(targets, n - 1)
         IN  fewer \cup {b (+) SetToBag({t}) : b \in fewer, t \in targets}

\* the left presses of one frame on the windows there are
Presses(ws) == PressBags(Targets(ws), MaxEvents)

\* the windows of a kind on which a press landed
Pressed(events, kind) == {t[2] : t \in {u \in BagToSet(events) : u[1] = kind}}

\* a sequence without the elements at the given indices, from index i on
RECURSIVE Kept(_, _, _)
Kept(seq, gone, i) ==
    IF i > Len(seq) THEN << >>
    ELSE (IF i \in gone THEN << >> ELSE <<seq[i]>>) \o Kept(seq, gone, i + 1)

-----------------------------------------------------------------------------
(* Startup *)

\* setup spawning the StateMachine blocked
setup_blocked == [timer |-> NewTimer(InitialSeconds * TicksPerSecond), can_change |-> FALSE]

\* setup (main.rs): the StateMachine spawned with Bonnie
setup == [timer |-> NewTimer(InitialSeconds * TicksPerSecond), can_change |-> TRUE]

\* The state after the startup schedules.  OnEnter(Idle) ran in the startup
\* StateTransition, before setup had spawned Bonnie, so block_state and
\* setup_idling found nothing to change.
Init ==
    /\ pc = "StateTransition"
    /\ delta = 0
    /\ state = Idle
    /\ next_state = Unchanged
    /\ bonnie_state = Idle
    /\ machine = setup
    /\ window_pos = Automatic
    /\ teach_pos = Automatic
    /\ cursor_pos = NoCursor
    /\ monitor \in Monitors
    /\ windows = NoWindows
    /\ birds = << >>
    /\ mouse_events = NoPresses
    /\ sprite = "BonNormal.png"
    /\ fault = NoFault

\* what the systems of a frame read and write
World ==
    [delta |-> delta, mouse_events |-> mouse_events, state |-> state,
     bonnie_state |-> bonnie_state, machine |-> machine, window_pos |-> window_pos,
     teach_pos |-> teach_pos,
     cursor_pos |-> cursor_pos, monitor |-> monitor, windows |-> windows,
     birds |-> birds,
     sprite |-> sprite, fault |-> fault]

Halt(w, msg) == [w EXCEPT !.fault = msg]

-----------------------------------------------------------------------------
(* StateTransition: the OnExit and OnEnter systems *)

Spawn(w, kind) == [w EXCEPT !.windows[kind] = @ + 1]

block_state(w) == [w EXCEPT !.machine = block(@)]

setup_idling(w) == [w EXCEPT !.sprite = "BonSleep.png"]

exit_idling(w) == [w EXCEPT !.sprite = "BonNormal.png"]

setup_chase(w) == [w EXCEPT !.sprite = "BonAngryMouth.png"]

exit_chase(w) == [w EXCEPT !.sprite = "BonNormal.png"]

setup_pooping(w) == [Spawn(w, "PoopWindow") EXCEPT !.machine = finish(@)]

\* setup_teaching that would spawn the teach popup without the nerd window
setup_teaching_without_nerd(w) ==
    Spawn([w EXCEPT !.machine = block(@),
                    !.teach_pos = At(<<TeachStartX, TeachStartY>>)],
          "TeachWindow")

\* blocks the gate itself and spawns the teach popup, off the screen to the
\* left, and the nerd window
setup_teaching(w) ==
    Spawn(Spawn([w EXCEPT !.machine = block(@),
                          !.teach_pos = At(<<TeachStartX, TeachStartY>>)],
                "TeachWindow"), "NerdWindow")

\* do_meow that plays the sound and leaves the machine alone
do_meow_sound_only(w) == w

do_meow(w) == [w EXCEPT !.machine = finish(@)]

\* a bird window as spawned: at (100, 100) with BirdDirection { v: IVec2::ONE }
NewBird == [pos |-> <<BirdStartX, BirdStartY>>, v |-> <<1, 1>>]

\* spawns a bird window and finishes
setup_bird(w) ==
    [Spawn(w, "BirdWindow") EXCEPT !.birds = Append(@, NewBird), !.machine = finish(@)]

create_scratch(w) == [Spawn(w, "ScratchWindow") EXCEPT !.machine = finish(@)]

\* the systems BonnieStatePlugin::build adds to OnExit(kind)
OnExit(kind, w) ==
    CASE kind = "Idle"    -> exit_idling(w)
      [] kind = "Chasing" -> exit_chase(w)
      [] OTHER            -> w

\* the systems BonnieStatePlugin::build adds to OnEnter(kind)
OnEnter(kind, w) ==
    CASE kind = "Meowing"  -> do_meow(w)
      [] kind = "Teaching" -> setup_teaching(block_state(w))
      [] kind = "Chasing"  -> setup_chase(block_state(w))
      [] kind = "Pooping"  -> setup_pooping(w)
      [] kind = "Bird"     -> setup_bird(w)
      [] kind = "Scratch"  -> create_scratch(w)
      [] kind = "Idle"     -> setup_idling(block_state(w))
      [] OTHER             -> w

\* apply_state_transition: a pending NextState becomes the State, then the
\* OnExit systems of the old state and the OnEnter systems of the new one run
StateTransition ==
    /\ pc = "StateTransition" /\ fault = NoFault
    /\ pc' = "Update"
    /\ IF next_state = Unchanged
       THEN UNCHANGED <<state, next_state, machine, windows, birds, teach_pos, sprite>>
       ELSE \E w \in {OnEnter(next_state.kind, OnExit(state.kind, World))} :
                /\ state' = next_state
                /\ next_state' = Unchanged
                /\ machine' = w.machine
                /\ windows' = w.windows
                /\ birds' = w.birds
                /\ teach_pos' = w.teach_pos
                /\ sprite' = w.sprite
    /\ UNCHANGED <<delta, bonnie_state, window_pos, cursor_pos, monitor, mouse_events,
                   fault>>

-----------------------------------------------------------------------------
(* Update: the systems of the other plugins *)

\* track_global_cursor_position: the position the OS reports (report.some), kept
\* as it was when the OS reports none
track_global_cursor_position(w, report) ==
    IF report.some THEN [w EXCEPT !.cursor_pos = report] ELSE w

\* move_window (control.rs) with no arrow key held: the position is written back,
\* (100, 100) standing in for a position the window system has not reported
move_window(w) ==
    [w EXCEPT !.window_pos = IF @.at THEN @ ELSE At(<<DefaultX, DefaultY>>)]

-----------------------------------------------------------------------------
(* Update: the chained systems of BonnieStatePlugin *)

\* handle_window_closing::<T> with the machine.finish() of lines 281-284 left out
handle_window_closing_no_finish(T, w) ==
    LET gone == Pressed(w.mouse_events, T)
        hit  == Cardinality(gone)
    IN  IF w.fault # NoFault \/ hit = 0 THEN w
        ELSE IF T = "BirdWindow"
        THEN [w EXCEPT !.windows[T] = @ - hit, !.birds = Kept(@, gone, 1)]
        ELSE IF T # "TeachWindow"
        THEN [w EXCEPT !.windows[T] = @ - hit]
        ELSE IF Count(w.windows, "NerdWindow") # 1
        THEN Halt(w, "nerd_query.single()")
        ELSE [w EXCEPT !.windows["TeachWindow"] = @ - hit,
                       !.windows["NerdWindow"] = 0,
                       !.teach_pos = Automatic]

\* handle_window_closing::<T> with the despawn of the nerd window (line 287)
\* left out
handle_window_closing_keeps_nerd(T, w) ==
    LET gone == Pressed(w.mouse_events, T)
        hit  == Cardinality(gone)
    IN  IF w.fault # NoFault \/ hit = 0 THEN w
        ELSE IF T = "BirdWindow"
        THEN [w EXCEPT !.windows[T] = @ - hit, !.birds = Kept(@, gone, 1)]
        ELSE IF T # "TeachWindow"
        THEN [w EXCEPT !.windows[T] = @ - hit]
        ELSE [w EXCEPT !.machine = finish(@),
                       !.windows["TeachWindow"] = @ - hit,
                       !.teach_pos = Automatic]

\* handle_window_closing that would finish the gate for every kind of window
handle_window_closing_always_finishes(T, w) ==
    LET gone == Pressed(w.mouse_events, T)
        hit  == Cardinality(gone)
    IN  IF w.fault # NoFault \/ hit = 0 THEN w
        ELSE IF T = "BirdWindow"
        THEN [w EXCEPT !.machine = finish(@), !.windows[T] = @ - hit,
                       !.birds = Kept(@, gone, 1)]
        ELSE [w EXCEPT !.machine = finish(@), !.windows[T] = @ - hit]

\* handle_window_closing::<T>: every left press on a window tagged T despawns it
\* (the despawns are commands, applied once the system has read all the events:
\* several presses on one window despawn it once); for the teach popup the
\* machine is finished and the single nerd window is despawned as well
\* (nerd_query.single() panics unless exactly one exists)
handle_window_closing(T, w) ==
    LET gone == Pressed(w.mouse_events, T)
        hit  == Cardinality(gone)
    IN  IF w.fault # NoFault \/ hit = 0 THEN w
        ELSE IF T = "BirdWindow"
        THEN [w EXCEPT !.windows[T] = @ - hit, !.birds = Kept(@, gone, 1)]
        ELSE IF T # "TeachWindow"
        THEN [w EXCEPT !.windows[T] = @ - hit]
        ELSE IF Count(w.windows, "NerdWindow") # 1
        THEN Halt([w EXCEPT !.machine = finish(@)], "nerd_query.single()")
        ELSE [w EXCEPT !.machine = finish(@),
                       !.windows["TeachWindow"] = @ - hit,
                       !.windows["NerdWindow"] = 0,
                       !.teach_pos = Automatic]

\* handle_movement: steer the primary window toward the Walking target or, in
\* Chasing, toward the cursor less the anchor offset
handle_movement(w) ==
    IF w.fault # NoFault THEN w
    ELSE IF ~w.monitor.present THEN Halt(w, "Failed to get monitor.")
    ELSE IF w.state.kind \notin {"Walking", "Chasing"} THEN w
    ELSE IF w.state.kind = "Chasing" /\ ~w.cursor_pos.some
    THEN Halt(w, "Cursor position not available")
    ELSE LET target_position ==
                 IF w.state.kind = "Walking" THEN w.state.target
                 ELSE <<w.cursor_pos.pos[1] - AnchorX, w.cursor_pos.pos[2] - AnchorY>>
             current_position == IF w.window_pos.at THEN w.window_pos.pos ELSE ZERO
             speed == calculate_movement_speed(w.monitor, w.state.kind)
         IN  [w EXCEPT !.window_pos =
                  At(Steer(current_position, target_position, StepLength(speed, w.delta)))]

\* handle_teaching: returns unless exactly one teach popup exists, then steers
\* the popup toward its place beside the primary window
handle_teaching(w) ==
    IF w.fault # NoFault \/ Count(w.windows, "TeachWindow") # 1 THEN w
    ELSE IF ~w.monitor.present THEN Halt(w, "Failed to get monitor.")
    ELSE LET bonnie_pos == IF w.window_pos.at THEN w.window_pos.pos ELSE ZERO
             target == <<bonnie_pos[1] + TeachOffsetX, bonnie_pos[2] + TeachOffsetY>>
             current_pos == IF w.teach_pos.at THEN w.teach_pos.pos ELSE ZERO
             speed == calculate_movement_speed(w.monitor, "Teaching")
         IN  [w EXCEPT !.teach_pos =
                  At(Steer(current_pos, target, StepLength(speed, w.delta)))]

\* the squared distance between the actor anchor and the cursor
AnchorDistance2(pos, cursor) ==
    LET dx == pos[1] + AnchorX - cursor[1]
        dy == pos[2] + AnchorY - cursor[2]
    IN  dx * dx + dy * dy

\* the cursor is known, the window position is known, and the cursor is nearer
\* the actor anchor than the threshold
Near(w, threshold) ==
    /\ w.cursor_pos.some
    /\ w.window_pos.at
    /\ AnchorDistance2(w.window_pos.pos, w.cursor_pos.pos) < threshold * threshold

\* handle_chasing without the state test of line 511
handle_chasing_any_state(w) ==
    IF w.fault = NoFault /\ Near(w, CatchDistance)
    THEN [w EXCEPT !.machine = finish(@)]
    ELSE w

\* handle_chasing with dist <= 35.0 for the dist < 35.0 of line 524
handle_chasing_inclusive(w) ==
    IF /\ w.fault = NoFault /\ w.bonnie_state.kind = "Chasing"
       /\ w.cursor_pos.some /\ w.window_pos.at
       /\ AnchorDistance2(w.window_pos.pos, w.cursor_pos.pos)
              <= CatchDistance * CatchDistance
    THEN [w EXCEPT !.machine = finish(@)]
    ELSE w

handle_chasing(w) ==
    IF w.fault = NoFault /\ w.bonnie_state.kind = "Chasing" /\ Near(w, CatchDistance)
    THEN [w EXCEPT !.machine = finish(@)]
    ELSE w

\* lines 859-873: the direction of a bird at pos after the match, of which only
\* the first arm that applies runs
Bounced(pos, v, size) ==
    IF pos[1] < BIRD_SIZE_BUFFER THEN <<1, v[2]>>
    ELSE IF pos[1] + BIRD_SIZE_BUFFER > size.width THEN <<-1, v[2]>>
    ELSE IF pos[2] < BIRD_SIZE_BUFFER THEN <<v[1], 1>>
    ELSE IF pos[2] + BIRD_SIZE_BUFFER > size.height THEN <<v[1], -1>>
    ELSE v

\* lines 877-881: the pixels a bird advances on each axis in a frame of d
\* milliseconds: speed * delta_secs cut to an integer
BirdStep(size, d) ==
    LET step == StepLength(calculate_movement_speed(size, "Bird"), d)
    IN  IF step[1] = 0 THEN 0
        ELSE TruncatedIn(1, step, 1, 0, CeilIn(step, 0, step[1] \div step[2] + 1))

\* one bird after a tick: bounced, then advanced along its direction
update_bird(bird, size, d) ==
    LET v == Bounced(bird.pos, bird.v, size)
        k == BirdStep(size, d)
    IN  [pos |-> <<bird.pos[1] + v[1] * k, bird.pos[2] + v[2] * k>>, v |-> v]

\* update_birds that would leave the birds alone outside the Bird state
update_birds_in_bird_state(w) ==
    IF w.fault # NoFault THEN w
    ELSE IF ~w.monitor.present THEN Halt(w, "Failed to get monitor.")
    ELSE IF w.state.kind # "Bird" THEN w
    ELSE [w EXCEPT !.birds =
              [i \in 1 .. Len(@) |-> update_bird(@[i], w.monitor, w.delta)]]

\* update_birds: needs the monitor, then bounces and advances every bird window
update_birds(w) ==
    IF w.fault # NoFault THEN w
    ELSE IF ~w.monitor.present THEN Halt(w, "Failed to get monitor.")
    ELSE [w EXCEPT !.birds =
              [i \in 1 .. Len(@) |-> update_bird(@[i], w.monitor, w.delta)]]

\* handle_idling without the state test of line 394
handle_idling_any_state(w) ==
    IF w.fault = NoFault /\ Near(w, WakeDistance)
    THEN [w EXCEPT !.machine = finish(@)]
    ELSE w

handle_idling(w) ==
    IF w.fault = NoFault /\ w.bonnie_state.kind = "Idle" /\ Near(w, WakeDistance)
    THEN [w EXCEPT !.machine = finish(@)]
    ELSE w

\* the chain of BonnieStatePlugin::build, in its order
Chain(w) ==
    handle_idling(update_birds(handle_chasing(handle_teaching(handle_movement(
        handle_window_closing("BirdWindow",
        handle_window_closing("TeachWindow",
        handle_window_closing("PoopWindow", w))))))))

\* The Update schedule of one frame.  The frame's delta is read here for the
\* first time, one of the given deltas; its mouse events, one of the given bags
\* of presses, are read here and nowhere else.  The executor may run the systems
\* of the other plugins anywhere among the chain; the model runs them first.
UpdateWith(deltas, presses) ==
    /\ pc = "Update" /\ fault = NoFault
    /\ pc' = "PostUpdate"
    /\ \E d \in deltas, events \in presses,
          report \in {Some(p) : p \in CursorPoints} \cup {NoCursor} :
          \E w \in {Chain(move_window(track_global_cursor_position(
                        [World EXCEPT !.delta = d, !.mouse_events = events], report)))} :
              /\ delta' = d
              /\ mouse_events' = events
              /\ machine' = w.machine
              /\ windows' = w.windows
              /\ birds' = w.birds
              /\ window_pos' = w.window_pos
              /\ teach_pos' = w.teach_pos
              /\ cursor_pos' = w.cursor_pos
              /\ fault' = w.fault
    /\ UNCHANGED <<state, next_state, bonnie_state, monitor, sprite>>

Update == UpdateWith(Deltas, Presses(windows))

-----------------------------------------------------------------------------
(* PostUpdate: the transition loop *)

\* the windows that no state waits for: poop, bird and scratch windows
Loose(ws) == Count(ws, "PoopWindow") + Count(ws, "BirdWindow") + Count(ws, "ScratchWindow")

\* the loose windows stay within MaxWindows together: a state whose entry
\* system spawns one is entered only if it fits (the teach popup and the nerd
\* window need no bound)
Fits(kind) ==
    kind \in {"Pooping", "Bird", "Scratch"} => Loose(windows) < MaxWindows

\* the condition of line 155 without the gate
can_transition_ungated(m) == m.timer.finished

\* line 155: the condition under which the loop changes the state, on the
\* machine whose timer has been ticked
can_transition(m) == m.can_change /\ m.timer.finished

\* a commit that would give the Actor the variant without its payload
CommitVariantOnly(new_state) ==
    [next_state |-> new_state, bonnie_state |-> [new_state EXCEPT !.target = <<0, 0>>]]

\* lines 169-170: the new state goes to NextState and to the Actor component
Commit(new_state) == [next_state |-> new_state, bonnie_state |-> new_state]

\* handle_state_transitions: tick the timer; when the machine can change and the
\* timer is finished, commit a random other state and restart the timer.  The
\* frame ends here: its delta is not read again.
handle_state_transitions ==
    /\ pc = "PostUpdate" /\ fault = NoFault
    /\ pc' = "StateTransition"
    /\ LET ticked == [machine EXCEPT !.timer = TimerTick(@, delta)]
       IN  IF ~can_transition(ticked)
           THEN /\ machine' = ticked
                /\ UNCHANGED <<next_state, bonnie_state, fault>>
           ELSE IF ~monitor.present
           THEN /\ machine' = ticked
                /\ fault' = "Failed to get monitor."
                /\ UNCHANGED <<next_state, bonnie_state>>
           ELSE \E checks \in BOOLEAN :
                \E r \in random_state(bonnie_state, monitor, checks, FALSE) :
                \E d \in Durations :
                    /\ Fits(r.state.kind)
                    /\ IF r.fault # NoFault
                       THEN /\ machine' = ticked
                            /\ fault' = r.fault
                            /\ UNCHANGED <<next_state, bonnie_state>>
                       ELSE /\ next_state' = Commit(r.state).next_state
                            /\ bonnie_state' = Commit(r.state).bonnie_state
                            /\ machine' = [ticked EXCEPT !.timer = TimerReset(@, d)]
                            /\ UNCHANGED fault
    /\ delta' = 0
    /\ mouse_events' = NoPresses
    /\ UNCHANGED <<state, window_pos, teach_pos, cursor_pos, monitor, windows, birds,
                   sprite>>

-----------------------------------------------------------------------------
(* The frame loop *)

Next ==
    \/ StateTransition
    \/ Update
    \/ handle_state_transitions

Spec == Init /\ [][Next]_vars

-----------------------------------------------------------------------------
(* The state selector on its own, over monitors of every kind of size *)

\* widths and heights on each side of the selector's thresholds
SelectorDims == {1, 200, 300, 301, 350, 400, 401}

SelectorMonitors == {Size(w, h) : w \in SelectorDims, h \in SelectorDims}

SelectorStates ==
    {FromDiscriminant(d) : d \in BonnieStateDiscriminants} \cup {Walking(<<150, 250>>)}

SelectorInit ==
    /\ pc = "random_state"
    /\ delta = 0
    /\ state \in SelectorStates
    /\ bonnie_state = state
    /\ next_state = Unchanged
    /\ machine = finish(setup)
    /\ window_pos = Automatic
    /\ teach_pos = Automatic
    /\ cursor_pos = NoCursor
    /\ monitor \in SelectorMonitors
    /\ windows = NoWindows
    /\ birds = << >>
    /\ mouse_events = NoPresses
    /\ sprite = "BonNormal.png"
    /\ fault = NoFault

\* line 165: random_state(&bonnie.state, &mut rng.0, monitor.size()), with every
\* value of every draw, in a build with overflow checks or one without
Select ==
    /\ pc = "random_state"
    /\ pc' = "selected"
    /\ \E checks \in BOOLEAN :
       \E r \in random_state(bonnie_state, monitor, checks, TRUE) :
           /\ fault' = r.fault
           /\ next_state' = IF r.fault = NoFault THEN r.state ELSE Unchanged
    /\ UNCHANGED <<delta, state, bonnie_state, machine, window_pos, teach_pos,
                   cursor_pos, monitor, windows, birds, mouse_events, sprite>>

SelectorSpec == SelectorInit /\ [][Select]_vars

-----------------------------------------------------------------------------
(* Properties of the timer, the gate and the transition loop *)

\* a step of handle_state_transitions
LoopRuns == pc = "PostUpdate" /\ pc' = "StateTransition"

\* a step of handle_state_transitions that commits a state
LoopFires == LoopRuns /\ next_state' # Unchanged

\* C1: for every current state, of any variant and with any Walking payload, and
\* every monitor size on which random_state returns, the state returned is of
\* another variant than the current one (FiresWhenDue states the same of every
\* transition the loop commits).
NeverSameVariant ==
    (pc = "selected" /\ fault = NoFault)
        => next_state # Unchanged /\ next_state.kind # bonnie_state.kind

\* random_state has returned for a Walking state with a payload
SelectedFromWalking ==
    /\ pc = "selected" /\ fault = NoFault
    /\ bonnie_state = Walking(<<150, 250>>)
    /\ next_state.kind = "Chasing"

\* C2: the state of the Actor changes only in a step of the transition loop in
\* which, the timer ticked, can_change is true and the timer is finished; a
\* loop step with can_change false leaves the state, the pending state, the
\* gate and the timer's duration as they were, however long ago the timer ended.
GatedTransition ==
    [][/\ (bonnie_state' # bonnie_state \/ next_state' \notin {next_state, Unchanged})
              => /\ LoopRuns
                 /\ machine.can_change
                 /\ TimerTick(machine.timer, delta).finished
       /\ (LoopRuns /\ ~machine.can_change)
              => /\ bonnie_state' = bonnie_state
                 /\ next_state' = next_state
                 /\ ~machine'.can_change
                 /\ machine'.timer.duration = machine.timer.duration]_vars

\* the loop has run in Chasing with the timer finished and the gate blocked, and
\* has committed nothing
BlockedLoopRan ==
    /\ pc = "StateTransition" /\ next_state = Unchanged
    /\ state.kind = "Chasing" /\ bonnie_state = state
    /\ machine.timer.finished /\ ~machine.can_change

\* C3: a step of the transition loop with the gate unblocked and the timer
\* finished after its tick fires: the committed state is of another variant, and
\* the timer is restarted with a drawn duration in [1.0, 4.0), all of it
\* remaining, so it is not finished after the step.
FiresWhenDue ==
    [][(LoopRuns /\ machine.can_change /\ TimerTick(machine.timer, delta).finished)
           => /\ next_state' # Unchanged
              /\ bonnie_state' = next_state'
              /\ bonnie_state'.kind # bonnie_state.kind
              /\ MinSeconds * TicksPerSecond <= Remaining(machine'.timer)
              /\ Remaining(machine'.timer) < MaxSeconds * TicksPerSecond
              /\ Remaining(machine'.timer) = machine'.timer.duration
              /\ ~machine'.timer.finished]_vars

\* the loop has fired out of Idle and restarted the timer with the longest duration
FiredFromIdle ==
    /\ pc = "StateTransition"
    /\ state = Idle /\ next_state.kind = "Pooping"
    /\ machine.timer = NewTimer(MaxSeconds * TicksPerSecond - 1)

\* the teach popup is closed by a press in this step
TeachClicked == pc = "Update" /\ windows'["TeachWindow"] < windows["TeachWindow"]

\* C4: finish() leaves the gate, blocked or not, finished or not, with no time
\* remaining and can_change true in one step (as when the teach popup is
\* pressed), and the next step of the transition loop fires.
FinishOpensGate ==
    [][/\ LET m == finish(machine)
          IN  m.can_change /\ m.timer.finished /\ Remaining(m.timer) = 0
       /\ TeachClicked => machine' = finish(machine)
       /\ (LoopRuns /\ machine = finish(machine)) => LoopFires]_vars

\* the teach popup was pressed while the gate was blocked and the timer running:
\* the gate is open and the timer finished before the loop has run
TeachFinished ==
    /\ pc = "PostUpdate" /\ state.kind = "Teaching"
    /\ Count(windows, "TeachWindow") = 0
    /\ machine = finish(machine)
    /\ machine.timer.duration = MaxSeconds * TicksPerSecond - 1
    /\ delta = 0

\* C5: block() leaves can_change false, and can_change stays false through the
\* ticks and restarts of the timer and the steps of the transition loop: it turns
\* true only in a step that is an unblock() or a finish() of the gate.
BlockedUntilFinish ==
    [][/\ ~block(machine).can_change
       /\ (~machine.can_change /\ machine'.can_change)
              => /\ ~LoopRuns
                 /\ machine' \in {unblock(machine), finish(machine)}]_vars

\* the gate, blocked on entering Teaching, is still blocked with the timer
\* finished after the loop has run
StillBlocked ==
    /\ pc = "StateTransition" /\ next_state = Unchanged
    /\ state.kind = "Teaching"
    /\ ~machine.can_change /\ machine.timer.finished

-----------------------------------------------------------------------------
(* Properties of the states' entry handling and of how the states end *)

\* the states said to block the gate on entry
SelfBlocking == {"Walking", "Chasing", "Teaching"}

\* C6: whenever the Actor enters Walking, Chasing or Teaching, the entry handling
\* of the state blocks the gate before the transition loop runs again, so that
\* the loop never fires in one of these states on the tick that ends the timer.
SelfBlockOnEntry ==
    [][/\ (pc = "StateTransition" /\ next_state.kind \in SelfBlocking)
              => ~machine'.can_change
       /\ (LoopFires /\ state.kind \in SelfBlocking) => machine.timer.finished]_vars

\* the movement step of this frame brings the window onto the Walking target
Arrives ==
    /\ pc = "Update" /\ state.kind = "Walking"
    /\ window_pos # At(state.target)
    /\ window_pos' = At(state.target)

\* C7: in Walking, in the frame in which the window arrives at the target, the
\* steering handler unblocks the gate and finishes it, so the gate is open and the
\* timer finished when the frame's loop step runs; Walking ends on arrival, not
\* when the timer runs out.
ArrivalEndsWalking ==
    [][/\ Arrives => machine' = finish(machine)
       /\ (LoopFires /\ state.kind = "Walking")
              => window_pos = At(state.target) /\ machine = finish(machine)]_vars

\* the states that are over as soon as they are entered
OneShot == {"Pooping", "Meowing", "Bird", "Scratch"}

\* C8: the entry handler of Pooping, Meowing, Bird and Scratch finishes the gate,
\* whatever duration the timer was restarted with, and the next step of the
\* transition loop commits a state of another variant.
OneShotStates ==
    [][/\ (pc = "StateTransition" /\ next_state.kind \in OneShot)
              => machine' = finish(machine)
       /\ (LoopRuns /\ state.kind \in OneShot)
              => LoopFires /\ next_state'.kind # state.kind]_vars

\* Scratch was entered, its overlay spawned, and the loop step of the same frame
\* has committed another state
OneShotLeft ==
    /\ pc = "StateTransition"
    /\ state.kind = "Scratch" /\ next_state.kind = "Walking"
    /\ windows["ScratchWindow"] = 1

\* C9: no state is terminal; in particular an Actor in Idle leaves Idle at the
\* step of the transition loop that finds its timer finished, also when the
\* cursor is not within the wake distance of its anchor.
IdleEnds ==
    [][(/\ LoopRuns
        /\ bonnie_state.kind = "Idle"
        /\ ~Near(World, WakeDistance)
        /\ TimerTick(machine.timer, delta).finished)
           => LoopFires /\ bonnie_state'.kind # "Idle"]_vars

\* C10: on a monitor wider and higher than twice the margin of 150, random_state
\* returns without a panic, and a Walking target it returns has
\* 150 <= x < width - 150 and 150 <= y < height - 150.
WalkTargetWithinMargin ==
    (/\ pc = "selected"
     /\ monitor.width > 2 * WalkMargin
     /\ monitor.height > 2 * WalkMargin)
        => /\ fault = NoFault
           /\ next_state.kind = "Walking"
                  => /\ WalkMargin <= next_state.target[1]
                     /\ next_state.target[1] < monitor.width - WalkMargin
                     /\ WalkMargin <= next_state.target[2]
                     /\ next_state.target[2] < monitor.height - WalkMargin

-----------------------------------------------------------------------------
(* The frame loop with a monitor that comes and goes *)

\* current_monitor() is asked anew by every system: the window leaves its monitor,
\* or comes back onto it, between two schedules
MonitorChanges ==
    /\ fault = NoFault
    /\ monitor' \in (Monitors \cup {NoMonitor}) \ {monitor}
    /\ UNCHANGED <<pc, delta, state, next_state, bonnie_state, machine, window_pos,
                   teach_pos, cursor_pos, windows, birds, mouse_events, sprite,
                   fault>>

MonitorNext == Next \/ MonitorChanges

MonitorSpec == Init /\ [][MonitorNext]_vars

-----------------------------------------------------------------------------
(* Properties of the handling of a missing monitor, cursor or margin *)

\* C11: on a monitor of any size from 1x1 on, random_state does not panic: no
\* empty range is sampled and no subtraction underflows; on an axis no longer than
\* twice the margin of 150 (300x300, say) the Walking coordinate is drawn from
\* [0, dimension).
SmallMonitorFallback ==
    pc = "selected"
        => /\ fault = NoFault
           /\ next_state.kind = "Walking"
                  => /\ monitor.width <= 2 * WalkMargin
                         => next_state.target[1] \in 0 .. (monitor.width - 1)
                     /\ monitor.height <= 2 * WalkMargin
                         => next_state.target[2] \in 0 .. (monitor.height - 1)

\* C12: a step of the transition loop that finds the gate open and the timer
\* finished but no monitor does not panic and leaves the Actor's state, the
\* pending state and the gate with its ticked timer as they are, to try again in
\* the next frame.
LoopSkipsWithoutMonitor ==
    [][(/\ LoopRuns
        /\ ~monitor.present
        /\ machine.can_change
        /\ TimerTick(machine.timer, delta).finished)
           => /\ fault' = NoFault
              /\ bonnie_state' = bonnie_state
              /\ next_state' = next_state
              /\ machine' = [machine EXCEPT !.timer = TimerTick(@, delta)]]_vars

\* C13: a frame in which the Actor is Chasing and the cursor tracker holds no
\* position does not panic: steering and the proximity check are skipped, and the
\* window position, the Actor's state and the gate stay as they are.
ChaseSkipsWithoutCursor ==
    [][(pc = "Update" /\ state.kind = "Chasing" /\ ~cursor_pos'.some)
           => /\ fault' = NoFault
              /\ window_pos' = window_pos
              /\ bonnie_state' = bonnie_state
              /\ machine' = machine]_vars

-----------------------------------------------------------------------------
(* One frame, of any length, from a state just entered *)

\* the greatest offset, on either axis, of a near target from the window
FrameReach == 3

NearOffsets == {<<x, y>> : x \in (0 - FrameReach)..FrameReach,
                          y \in (0 - FrameReach)..FrameReach}

\* offsets of the cursor from the actor anchor around the two thresholds
ThresholdOffsets ==
    {<<CatchDistance - 5, 0>>, <<CatchDistance - 1, 0>>, <<CatchDistance, 0>>,
     <<21, 28>>, <<20, 28>>, <<40, 0>>,
     <<WakeDistance - 1, 0>>, <<WakeDistance, 0>>, <<42, 56>>, <<41, 56>>}

FrameTargets == {<<DefaultX + o[1], DefaultY + o[2]>> : o \in NearOffsets}

FrameCursors ==
    {Some(<<DefaultX + AnchorX + o[1], DefaultY + AnchorY + o[2]>>) :
        o \in NearOffsets \cup ThresholdOffsets} \cup {NoCursor}

\* the teach popup near its place beside the window
FramePopups ==
    {At(<<DefaultX + TeachOffsetX + o[1], DefaultY + TeachOffsetY + o[2]>>) :
        o \in NearOffsets}

FrameMonitors == {Size(401, 401), Size(1920, 1080)}

\* frames of no time, of 4 ms, of 16 ms and of FrameSeconds
FrameDeltas == {0, 4, 16} \cup Deltas

FrameStates ==
    {Idle, FromDiscriminant("Chasing"), FromDiscriminant("Teaching")}
        \cup {Walking(t) : t \in FrameTargets}

\* the world after the entry systems of state s ran on a monitor m
Entered(s, m) ==
    OnEnter(s.kind,
            [delta |-> 0, mouse_events |-> NoPresses, birds |-> << >>,
             state |-> s, bonnie_state |-> s,
             machine |-> setup, window_pos |-> At(<<DefaultX, DefaultY>>),
             teach_pos |-> Automatic,
             cursor_pos |-> NoCursor, monitor |-> m, windows |-> NoWindows,
             sprite |-> "BonNormal.png", fault |-> NoFault])

\* the state machine is in a state it has just entered (Idle may also be the
\* initial state, which no system entered; in Teaching the popup may already be
\* near its place), the window is at a known position and the cursor has been
\* seen anywhere around it, or not at all
FrameInit ==
    /\ pc = "Update"
    /\ delta = 0
    /\ state \in FrameStates
    /\ bonnie_state = state
    /\ next_state = Unchanged
    /\ monitor \in FrameMonitors
    /\ machine \in {Entered(state, monitor).machine}
                       \cup (IF state = Idle THEN {setup} ELSE {})
    /\ window_pos = At(<<DefaultX, DefaultY>>)
    /\ teach_pos \in IF state.kind = "Teaching"
                      THEN {Entered(state, monitor).teach_pos} \cup FramePopups
                      ELSE {Automatic}
    /\ cursor_pos \in FrameCursors
    /\ windows = Entered(state, monitor).windows
    /\ birds = << >>
    /\ mouse_events = NoPresses
    /\ sprite = IF machine.can_change THEN "BonNormal.png"
                ELSE Entered(state, monitor).sprite
    /\ fault = NoFault

FrameUpdate == UpdateWith(FrameDeltas, Presses(windows))

FrameSpec == FrameInit /\ [][FrameUpdate]_vars

\* the squared distance from the actor anchor to the cursor after the step
DistanceAfter == AnchorDistance2(window_pos'.pos, cursor_pos'.pos)

\* C14: while Chasing, a frame's Update that leaves the cursor (known) nearer
\* than 35 px to the actor anchor finishes the gate in that frame; at 35 px or
\* more it leaves the gate as it was.
ChaseCatches ==
    [][(pc = "Update" /\ bonnie_state.kind = "Chasing" /\ cursor_pos'.some)
        => IF DistanceAfter < CatchDistance * CatchDistance
           THEN machine' = finish(machine)
           ELSE machine' = machine]_vars

\* a chase frame of no time ended with the cursor 34 px from the anchor, and
\* the gate is finished
CaughtAtThirtyFour ==
    /\ pc = "PostUpdate" /\ bonnie_state.kind = "Chasing" /\ delta = 0
    /\ cursor_pos.some /\ window_pos.at
    /\ AnchorDistance2(window_pos.pos, cursor_pos.pos)
           = (CatchDistance - 1) * (CatchDistance - 1)
    /\ machine.can_change /\ machine.timer.finished

\* C15: while Idle, a frame's Update that leaves the cursor (known) nearer than
\* 70 px to the actor anchor finishes the gate; in Walking, Teaching and Chasing
\* a cursor within 70 px (and, for Chasing, not within 35 px) leaves the gate
\* as it was unless a popup was clicked.
IdleWakes ==
    [][(pc = "Update" /\ cursor_pos'.some)
        => LET near == DistanceAfter < WakeDistance * WakeDistance
               caught == /\ bonnie_state.kind = "Chasing"
                         /\ DistanceAfter < CatchDistance * CatchDistance
           IN  /\ (bonnie_state.kind = "Idle" /\ near) => machine' = finish(machine)
               /\ (bonnie_state.kind = "Idle" /\ ~near) => machine' = machine
               /\ (bonnie_state.kind # "Idle" /\ near /\ ~caught /\ windows' = windows)
                      => machine' = machine]_vars

\* an Idle frame ended with the cursor 69 px from the anchor, and the gate,
\* blocked on entry, is finished
WokenAtSixtyNine ==
    /\ pc = "PostUpdate" /\ bonnie_state.kind = "Idle" /\ sprite = "BonSleep.png"
    /\ cursor_pos.some /\ window_pos.at
    /\ AnchorDistance2(window_pos.pos, cursor_pos.pos)
           = (WakeDistance - 1) * (WakeDistance - 1)
    /\ machine.can_change /\ machine.timer.finished

-----------------------------------------------------------------------------
(* Claims about Teaching *)

\* C16: while Teaching, a left press on the teach popup despawns the popup and
\* the nerd window and finishes the gate in that step, without a fault; and as
\* long as the popup is there, unpressed, no step of the transition loop leaves
\* Teaching, whatever the timer shows.
TeachingEndsOnClick ==
    [][/\ (TeachClicked /\ bonnie_state.kind = "Teaching")
              => /\ fault' = NoFault
                 /\ Count(windows', "TeachWindow") = 0
                 /\ Count(windows', "NerdWindow") = 0
                 /\ machine' = finish(machine)
       /\ (LoopRuns /\ bonnie_state.kind = "Teaching"
                    /\ Count(windows, "TeachWindow") > 0)
              => /\ bonnie_state' = bonnie_state
                 /\ next_state' = Unchanged]_vars

\* the popup was pressed in Teaching and the loop has chosen another state:
\* popup and nerd window are gone
TeachingLeft ==
    /\ pc = "StateTransition" /\ state.kind = "Teaching"
    /\ next_state # Unchanged /\ bonnie_state.kind # "Teaching"
    /\ Count(windows, "TeachWindow") = 0 /\ Count(windows, "NerdWindow") = 0

-----------------------------------------------------------------------------
(* Claims about one steering step *)

\* the target of the chase in the frame of this step
ChaseTarget == <<cursor_pos'.pos[1] - AnchorX, cursor_pos'.pos[2] - AnchorY>>

\* the place of the teach popup in the frame of this step
PopupTarget == <<window_pos'.pos[1] + TeachOffsetX, window_pos'.pos[2] + TeachOffsetY>>

\* the primary window is steered toward the Walking target in this step
WalkSteered == pc = "Update" /\ state.kind = "Walking" /\ window_pos.at

\* the primary window is steered toward the cursor in this step
ChaseSteered ==
    pc = "Update" /\ state.kind = "Chasing" /\ window_pos.at /\ cursor_pos'.some

\* the teach popup is steered toward its place in this step
PopupSteered ==
    /\ pc = "Update" /\ teach_pos.at
    /\ Count(windows, "TeachWindow") = 1 /\ Count(windows', "TeachWindow") = 1

\* C17: a steering step whose target is the current position (a zero-length
\* direction) raises no fault and leaves the steered window on the target, in
\* Walking and in Chasing (and for the teach popup) with any frame length.
ZeroLengthStays ==
    [][/\ (WalkSteered /\ window_pos.pos = state.target)
              => fault' = NoFault /\ window_pos' = At(state.target)
       /\ (ChaseSteered /\ window_pos.pos = ChaseTarget)
              => fault' = NoFault /\ window_pos' = At(ChaseTarget)
       /\ (PopupSteered /\ teach_pos.pos = PopupTarget)
              => fault' = NoFault /\ teach_pos' = At(PopupTarget)]_vars

\* a Walking frame in which time passed ran with the window already on the
\* target: the window is still there and the run goes on
StayedOnTarget ==
    /\ pc = "PostUpdate" /\ state = Walking(<<DefaultX, DefaultY>>)
    /\ window_pos = At(state.target)
    /\ delta > 0 /\ fault = NoFault

\* new is no farther from target than current was, on neither axis past it, and
\* the way from current to new is no longer than the way to target
NoFarther(current, target, new) ==
    /\ \A i \in 1..2 :
          /\ (target[i] - new[i]) * (target[i] - current[i]) >= 0
          /\ Abs(target[i] - new[i]) <= Abs(target[i] - current[i])
          /\ Abs(new[i] - current[i]) <= Abs(target[i] - current[i])
    /\ (new[1] - current[1]) * (new[1] - current[1])
         + (new[2] - current[2]) * (new[2] - current[2])
           <= (target[1] - current[1]) * (target[1] - current[1])
              + (target[2] - current[2]) * (target[2] - current[2])

\* C18: a steering step never overshoots: the window moves by no more than the
\* remaining distance, ends no farther from the target than it was and on
\* neither axis beyond it, in Walking, in Chasing and for the teach popup.
NoOvershoot ==
    [][/\ WalkSteered => NoFarther(window_pos.pos, state.target, window_pos'.pos)
       /\ ChaseSteered => NoFarther(window_pos.pos, ChaseTarget, window_pos'.pos)
       /\ PopupSteered => NoFarther(teach_pos.pos, PopupTarget, teach_pos'.pos)]_vars

\* a Walking step that was shorter than the way to the target: the window is
\* off its old place and not yet on the target
SteppedShort ==
    /\ pc = "PostUpdate" /\ state.kind = "Walking" /\ fault = NoFault
    /\ window_pos.at
    /\ window_pos.pos \notin {<<DefaultX, DefaultY>>, state.target}

-----------------------------------------------------------------------------
(* The StateMachine component alone: its methods and its timer, in any order *)

GateInit ==
    /\ pc = "setup"
    /\ delta = 0
    /\ state = Idle
    /\ next_state = Unchanged
    /\ bonnie_state = Idle
    /\ machine = setup
    /\ window_pos = Automatic
    /\ teach_pos = Automatic
    /\ cursor_pos = NoCursor
    /\ monitor \in Monitors
    /\ windows = NoWindows
    /\ birds = << >>
    /\ mouse_events = NoPresses
    /\ sprite = "BonNormal.png"
    /\ fault = NoFault

\* a method of the gate ran: pc names it
Gate(method, m) ==
    /\ pc' = method
    /\ machine' = m
    /\ UNCHANGED <<delta, state, next_state, bonnie_state, window_pos, teach_pos,
                   cursor_pos, monitor, windows, birds, mouse_events, sprite, fault>>

GateTick == \E d \in FrameDeltas : Gate("tick", [machine EXCEPT !.timer = TimerTick(@, d)])

GateReset == \E d \in Durations : Gate("reset", [machine EXCEPT !.timer = TimerReset(@, d)])

GateBlock == Gate("block", block(machine))

GateUnblock == Gate("unblock", unblock(machine))

GateToggle == Gate("toggle_block", toggle_block(machine))

\* finish(), told apart by the gate it is called on
GateFinish ==
    Gate(IF machine.can_change /\ machine.timer.finished THEN "finish again"
         ELSE "finish", finish(machine))

GateNext ==
    GateTick \/ GateReset \/ GateBlock \/ GateUnblock \/ GateToggle \/ GateFinish

GateSpec == GateInit /\ [][GateNext]_vars

\* C19: finish() on a gate that is already expired and unblocked changes
\* nothing: the timer stays expired, the gate unblocked; and finishing twice is
\* finishing once.
FinishIdempotent ==
    [][/\ finish(finish(machine)) = finish(machine)
       /\ pc' = "finish again"
              => /\ machine' = machine
                 /\ machine'.can_change /\ machine'.timer.finished
                 /\ Remaining(machine'.timer) = 0]_vars

\* finish() was called on a gate that was expired and unblocked, after a tick
\* had run its timer out or after an earlier finish()
FinishedAgain ==
    /\ pc = "finish again"
    /\ machine.can_change /\ machine.timer.finished

-----------------------------------------------------------------------------
(* Claims about the start of a run *)

\* the run is in its first state: the Idle no transition entered (an Idle that
\* was entered shows the sleeping sprite)
FirstIdle == state = Idle /\ bonnie_state = Idle /\ sprite = "BonNormal.png"

\* C20: a run starts in Idle with can_change true and the whole of a 2.0 s
\* timer remaining.  The gate of the first Idle is never blocked; its timer is
\* finished only by a tick of the loop or by the cursor coming within 70 px;
\* nothing but the loop, which ticks first, chooses the next state, and the loop
\* chooses it exactly when its tick runs the timer out or the cursor has come
\* near in that frame.
FirstTransition ==
    /\ FirstIdle /\ next_state = Unchanged
    /\ machine.can_change /\ ~machine.timer.finished
    /\ Remaining(machine.timer) = InitialSeconds * TicksPerSecond
    /\ [][FirstIdle
            => /\ machine.can_change
               /\ machine.timer.duration = InitialSeconds * TicksPerSecond
               /\ machine.timer.finished
                      => pc = "PostUpdate" /\ Near(World, WakeDistance)
               /\ ~LoopRuns => next_state' = Unchanged /\ bonnie_state' = bonnie_state
               /\ LoopRuns
                      => (LoopFires <=>
                             \/ Near(World, WakeDistance)
                             \/ machine.timer.elapsed + delta
                                    >= InitialSeconds * TicksPerSecond)]_vars

\* the first Idle has ended on its timer, the cursor never having come near:
\* the loop has chosen the next state
FirstIdleTimedOut ==
    /\ pc = "StateTransition" /\ state = Idle /\ sprite = "BonNormal.png"
    /\ next_state # Unchanged /\ bonnie_state = next_state
    /\ ~cursor_pos.some
    /\ ~cursor_pos.some

-----------------------------------------------------------------------------
(* Claims about the order of a frame *)

\* In Idle, Chasing and Teaching a gate that the loop finds open and finished
\* was finished by a handler of this frame's Update: the loop of the frame
\* before would have consumed it.
FinishedThisFrame ==
    /\ pc = "PostUpdate"
    /\ state.kind \in {"Idle", "Chasing", "Teaching"} /\ bonnie_state = state
    /\ machine = finish(machine)

\* C21: the transition decision of a frame runs before the frame's tick and
\* click handlers, so a finish() issued by one of these handlers is consumed
\* by the loop no earlier than in the next frame: the loop step of the frame
\* in which the gate was finished does not fire.
FinishWaitsForNextFrame ==
    [][(LoopRuns /\ FinishedThisFrame) => ~LoopFires]_vars

-----------------------------------------------------------------------------
(* Claims about the progress and the result of a steering step *)

\* C22: steering never stalls: in Walking and in Chasing a frame in which time
\* passes and the window is not on the target changes the window position.
SteeringNeverStalls ==
    [][/\ (WalkSteered /\ delta' > 0 /\ window_pos.pos # state.target)
              => window_pos' # window_pos
       /\ (ChaseSteered /\ delta' > 0 /\ window_pos.pos # ChaseTarget)
              => window_pos' # window_pos]_vars

\* the squared length of the step of this frame for a state of the given kind
FrameStep(kind) == StepLength(calculate_movement_speed(monitor, kind), delta')

\* k is a * sqrt(step / len2) rounded to the nearest integer, halves away from
\* zero: k has the sign of a (or is zero) and
\* (2|k| - 1)^2 / (4 a^2) <= step / len2 < (2|k| + 1)^2 / (4 a^2)
IsRounded(k, a, step, len2) ==
    LET n == Abs(k)
    IN  /\ k * a >= 0
        /\ (a = 0 \/ step[1] = 0) => k = 0
        /\ (a # 0 /\ step[1] # 0) =>
              /\ n > 0 => LeqFrac((2 * n - 1) * (2 * n - 1) * step[2], step[1],
                                   4 * a * a, len2)
              /\ ~LeqFrac((2 * n + 1) * (2 * n + 1) * step[2], step[1],
                          4 * a * a, len2)

\* new is what one movement step makes of current: the target when the
\* remaining distance is at most the step, current + round(delta) otherwise
SnapsOrSteps(current, target, step, new) ==
    LET dx   == target[1] - current[1]
        dy   == target[2] - current[2]
        len2 == dx * dx + dy * dy
    IN  IF LeqFrac(len2, 1, step[1], step[2]) THEN new = target
        ELSE /\ IsRounded(new[1] - current[1], dx, step, len2)
             /\ IsRounded(new[2] - current[2], dy, step, len2)

\* C23: snap on arrival: a movement step whose remaining distance is at most
\* the length of the frame's step puts the window exactly on the target; any
\* other step puts it on current + round(step); in Walking, in Chasing and for
\* the teach popup.
SnapOnArrival ==
    [][/\ WalkSteered
              => SnapsOrSteps(window_pos.pos, state.target, FrameStep("Walking"),
                              window_pos'.pos)
       /\ ChaseSteered
              => SnapsOrSteps(window_pos.pos, ChaseTarget, FrameStep("Chasing"),
                              window_pos'.pos)
       /\ PopupSteered
              => SnapsOrSteps(teach_pos.pos, PopupTarget, FrameStep("Teaching"),
                              teach_pos'.pos)]_vars

\* a Walking frame of 16 ms on the small monitor, a step of 1.36 px, has
\* snapped the window onto a target one pixel away
SnappedOneAway ==
    /\ pc = "PostUpdate" /\ state = Walking(<<DefaultX + 1, DefaultY>>)
    /\ window_pos = At(state.target) /\ delta = 16
    /\ monitor = Size(401, 401)

-----------------------------------------------------------------------------
(* The birds *)

\* the birds that a frame's presses leave for update_birds to advance, in the
\* order of birds'
BirdsTicked == Kept(birds, Pressed(mouse_events', "BirdWindow"), 1)

\* a frame in which update_birds has advanced the birds
BirdTick == pc = "Update" /\ fault' = NoFault

\* the direction v points away from every edge that pos is within
\* BIRD_SIZE_BUFFER of
PointsAway(pos, v, size) ==
    /\ pos[1] < BIRD_SIZE_BUFFER => v[1] = 1
    /\ pos[1] + BIRD_SIZE_BUFFER > size.width => v[1] = -1
    /\ pos[2] < BIRD_SIZE_BUFFER => v[2] = 1
    /\ pos[2] + BIRD_SIZE_BUFFER > size.height => v[2] = -1

\* C24: in every bird tick the direction with which a bird is advanced points
\* away from every screen edge the bird was within 80 px of, on both axes when
\* it was in a corner.
BirdsBounceOffEveryWall ==
    [][BirdTick =>
          \A i \in 1 .. Len(birds') :
             PointsAway(BirdsTicked[i].pos, birds'[i].v, monitor)]_vars

-----------------------------------------------------------------------------
(* Presses on the poop and bird windows *)

\* a frame's presses without those on windows of the given kinds
WithoutPresses(events, kinds) ==
    [t \in {u \in BagToSet(events) : u[1] \notin kinds} |-> events[t]]

\* what the frame's Update would have made of the world had no press landed on
\* a poop or a bird window, for a cursor report
Unpressed(report) ==
    Chain(move_window(track_global_cursor_position(
        [World EXCEPT !.delta = delta',
                      !.mouse_events =
                          WithoutPresses(mouse_events', {"PoopWindow", "BirdWindow"})],
        report)))

-----------------------------------------------------------------------------
(* The ways out of the transient windows: a run in which the user presses, in
   every frame, every window that takes presses, and frames keep coming *)

\* one left press on each window there is that can be hit
EveryWindowPressed == SetToBag(Targets(windows))

PressedUpdate == UpdateWith(Deltas, {EveryWindowPressed})

DespawnNext == StateTransition \/ PressedUpdate \/ handle_state_transitions

\* the program has stopped on a panic
Stopped == fault # NoFault

\* the schedule that follows a schedule in the main loop
Following(schedule) ==
    CASE schedule = "StateTransition" -> "Update"
      [] schedule = "Update"          -> "PostUpdate"
      [] schedule = "PostUpdate"      -> "StateTransition"

\* the app runner goes on to the next schedule
RunSchedule == ~Stopped /\ pc' = Following(pc)

\* the runner keeps going as long as the program has not stopped
DespawnSpec == Init /\ [][DespawnNext]_vars /\ WF_pc(RunSchedule)

\* the windows with a press handler, and the nerd window that goes with the
\* teach popup, are gone a frame after such a press
PressedWindowsGo ==
    \A kind \in Clickable : (windows[kind] > 0) ~> (windows[kind] = 0 \/ Stopped)

\* C27: every kind of transient window has a way out, the scratch overlay too:
\* under a user who presses every window in every frame, a scratch overlay that
\* exists is gone at some later frame (or the program has stopped).
ScratchOverlayGoes ==
    (windows["ScratchWindow"] > 0) ~> (windows["ScratchWindow"] = 0 \/ Stopped)

-----------------------------------------------------------------------------
(* What ends Teaching and Chasing *)

\* C28: in Teaching, every step that leaves the teach popup in place leaves the
\* gate blocked and the state Teaching, whatever the cursor, the timer and the
\* presses on other windows do; and the gate of Chasing opens, and the loop
\* fires from Chasing, only in a frame whose Update left the cursor within 35 px
\* of the anchor.
OnlyItsOwnFinish ==
    [][/\ (state.kind = "Teaching" /\ pc # "StateTransition"
               /\ windows'["TeachWindow"] > 0) =>
             /\ ~machine'.can_change
             /\ state' = state /\ bonnie_state' = bonnie_state
             /\ next_state' = Unchanged
       /\ (state.kind = "Chasing" /\ pc = "Update" /\ machine'.can_change) =>
             /\ cursor_pos'.some
             /\ DistanceAfter < CatchDistance * CatchDistance
       /\ (state.kind = "Chasing" /\ LoopFires) => Near(World, CatchDistance)]_vars

\* Teaching has outlasted its timer with the cursor on the anchor and a press on
\* the poop window in the frame
TeachingSitsThrough ==
    /\ pc = "PostUpdate" /\ state.kind = "Teaching" /\ ~machine.can_change
    /\ machine.timer.finished /\ Near(World, CatchDistance)
    /\ Pressed(mouse_events, "PoopWindow") # {} /\ windows["TeachWindow"] = 1

-----------------------------------------------------------------------------
(* The two copies of the state *)

\* C29: whenever the systems of Update run, and when the loop runs after them,
\* the state on the Actor component is the framework state, variant and payload.
CopiesAgree == pc \in {"Update", "PostUpdate"} => bonnie_state = state

\* the systems of Update are about to run on a walk the loop committed
WalkInBothCopies ==
    /\ pc = "Update" /\ state.kind = "Walking" /\ state.target # <<0, 0>>
    /\ bonnie_state = state /\ window_pos.at /\ window_pos.pos # state.target

-----------------------------------------------------------------------------
(* The teach popup and its nerd window *)

\* C30: there is at most one teach popup and at most one nerd window, a teach
\* popup only together with exactly one nerd window, and the lookup of the
\* single nerd window by the click handler has not failed, however many presses
\* landed on the popup in a frame.
OnePopupOneNerd ==
    /\ windows["TeachWindow"] <= 1 /\ windows["NerdWindow"] <= 1
    /\ windows["TeachWindow"] = 1 => windows["NerdWindow"] = 1
    /\ fault # "nerd_query.single()"

\* two presses landed on the teach popup in one frame: the popup and the nerd
\* window are gone, the gate is open and the program runs on
PopupPressedTwice ==
    /\ pc = "PostUpdate" /\ state.kind = "Teaching" /\ ~Stopped
    /\ CopiesIn(<<"TeachWindow", 1>>, mouse_events) = 2
    /\ windows["TeachWindow"] = 0 /\ windows["NerdWindow"] = 0
    /\ machine.can_change

====
